---- MODULE Spec2Model ----
(***************************************************************************)
(* Model of SharpRemote/PostmortemDebugging.cpp: the process-wide dump     *)
(* collection configuration, the capture pipeline (folder provisioning,    *)
(* retention scan, file naming, dump writing) and the three fault          *)
(* handlers.  Strings are sequences of one-character strings; the file     *)
(* system is a set of directories and a set of files with a last-write     *)
(* time.  The outcome of every Win32 call that the environment decides is  *)
(* an input of the action that makes the call.                             *)
(***************************************************************************)
EXTENDS Integers, Sequences, FiniteSets, TLC

VARIABLES
    _collectDumps,            \* bool _collectDumps
    _numRetainedMinidumps,    \* int _numRetainedMinidumps
    _dumpFolder,              \* std::wstring _dumpFolder
    _dumpName,                \* std::wstring _dumpName
    _minidumpStringBuilder,   \* contents of std::wstringstream _minidumpStringBuilder
    _minidumpFileName,        \* std::wstring _minidumpFileName
    _minidumpPattern,         \* std::wstring _minidumpPattern
    _tmpPath,                 \* std::wstring _tmpPath
    _oldestFileFullName,      \* std::wstring _oldestFileFullName
    lastError,                \* the thread's last-error value as set by SetLastError
    ret,                      \* the last exported call or handler and what it returned
    cap,                      \* what the last capture did, step by step
    dirs,                     \* file system: the directories that exist
    files,                    \* file system: the files that exist, [dir, name, time]
    openFiles,                \* paths of output files whose handle is still open
    openProcs,                \* number of process handles still open
    clock,                    \* seconds elapsed on the local clock
    process,                  \* "running", "terminated" (fault path) or "aborted"
    numCaptures               \* captures that reached the pipeline so far

config == <<_collectDumps, _numRetainedMinidumps, _dumpFolder, _dumpName, _minidumpPattern>>
scratch == <<_minidumpStringBuilder, _minidumpFileName, _tmpPath, _oldestFileFullName>>
fs == <<dirs, files>>
handles == <<openFiles, openProcs>>
vars == <<config, scratch, lastError, ret, cap, fs, handles, clock, process, numCaptures>>

----------------------------------------------------------------------------
(* Bounds of the model. *)

MaxRetained == 2       \* largest numRetainedMinidumps passed to InitDumpCollection
MaxOldFiles == 2       \* dump files already in the folder when the process starts
MaxClock == 1          \* seconds the local clock advances
MaxCaptures == 2       \* captures that run the pipeline in one process lifetime
MaxFaults == 1         \* calls the environment lets fail during one capture

----------------------------------------------------------------------------
(* Values of the Win32 API. *)

NULL == <<"NULL">>          \* a null pointer, of whatever type
ERROR_SUCCESS == "ERROR_SUCCESS"
ERROR_FILE_NOT_FOUND == "ERROR_FILE_NOT_FOUND"
ERROR_PATH_NOT_FOUND == "ERROR_PATH_NOT_FOUND"
ERROR_ACCESS_DENIED == "ERROR_ACCESS_DENIED"
ERROR_BAD_ARGUMENTS == "ERROR_BAD_ARGUMENTS"
ERROR_ALREADY_EXISTS == "ERROR_ALREADY_EXISTS"
ERROR_INVALID_NAME == "ERROR_INVALID_NAME"
ERROR_SHARING_VIOLATION == "ERROR_SHARING_VIOLATION"
EXCEPTION_EXECUTE_HANDLER == "EXCEPTION_EXECUTE_HANDLER"

----------------------------------------------------------------------------
(* Strings. *)

Sep == "\\"

\* wcschr(s, c) != nullptr
wcschr(s, c) == \E i \in 1..Len(s) : s[i] = c

\* wcsstr(s, t) != nullptr
wcsstr(s, t) ==
    \E i \in 1..(Len(s) - Len(t) + 1) : SubSeq(s, i, i + Len(t) - 1) = t

\* Position of the last path separator of s at or before i, 0 when there is none.
RECURSIVE LastSepFrom(_, _)
LastSepFrom(s, i) ==
    IF i = 0 THEN 0 ELSE IF s[i] = Sep THEN i ELSE LastSepFrom(s, i - 1)

LastSep(s) == LastSepFrom(s, Len(s))

\* The directory part of a path (without the trailing separator).
DirOf(p) == SubSeq(p, 1, LastSep(p) - 1)

\* The file-name part of a path.
NameOf(p) == SubSeq(p, LastSep(p) + 1, Len(p))

Digit(d) == <<SubSeq(<<"0", "1", "2", "3", "4", "5", "6", "7", "8", "9">>, d + 1, d + 1)[1]>>

\* operator<< of an unsigned integer on the stream: decimal, no padding.
RECURSIVE Decimal(_)
Decimal(n) == IF n < 10 THEN Digit(n) ELSE Decimal(n \div 10) \o Digit(n % 10)

----------------------------------------------------------------------------
(* Inputs the callers pass. *)

S_app == <<"a", "p", "p">>
S_dmp == <<".", "d", "m", "p">>
S_folder == <<"C", ":", Sep, "d", Sep>>

\* dumpFolder arguments: a valid one, one the drive-less root form, and one
\* per way of being malformed.
FolderArgs ==
    { NULL,
      S_folder,
      <<Sep, "d", Sep>>,
      <<"C", ":", Sep, "d">>,
      <<"d", Sep>>,
      <<"C", ":", "/", "d", Sep>>,
      <<>> }

\* dumpName arguments of InitDumpCollection.
NameArgs == { NULL, S_app, <<>>, <<"a", "*">>, <<".", ".">> }

\* dumpName arguments of CreateMiniDump(processId, dumpName).
DumpNameArgs == { S_app, <<"x">>, <<>> }

\* numRetainedMinidumps arguments.
CountArgs == (-1)..MaxRetained

OwnPid == 4
OtherPid == 8

----------------------------------------------------------------------------
(* Validation. *)

\* The mutant of CheckDumpNameConstraints that looks for one '.' where the
\* code looks for "..".
CheckDumpNameConstraints_anyDot(dumpName) ==
    ~ ( \/ wcschr(dumpName, "/")
        \/ wcschr(dumpName, Sep)
        \/ wcsstr(dumpName, <<".">>)
        \/ wcsstr(dumpName, <<":">>)
        \/ wcsstr(dumpName, <<"*">>)
        \/ wcsstr(dumpName, <<"?">>)
        \/ wcsstr(dumpName, <<"\"">>)
        \/ Len(dumpName) = 0 )

\* BOOL CheckDumpNameConstraints(const wchar_t* dumpName)
CheckDumpNameConstraints(dumpName) ==
    ~ ( \/ wcschr(dumpName, "/")
        \/ wcschr(dumpName, Sep)
        \/ wcsstr(dumpName, <<".", ".">>)
        \/ wcsstr(dumpName, <<":">>)
        \/ wcsstr(dumpName, <<"*">>)
        \/ wcsstr(dumpName, <<"?">>)
        \/ wcsstr(dumpName, <<"\"">>)
        \/ Len(dumpName) = 0 )

\* shlwapi PathIsRelative: an empty path is relative; a path is not relative
\* when it starts with a separator or its second character is ':'.
PathIsRelative(path) ==
    IF Len(path) = 0 THEN TRUE
    ELSE ~ (path[1] = Sep \/ (Len(path) >= 2 /\ path[2] = ":"))

\* dumpFolder[dumpFolderLength-1] != '\\'.  For the empty string the index is
\* out of bounds and the character read is whatever lies before the buffer:
\* oob says whether that character happens to be the separator.
LastCharIsNotSep(dumpFolder, oob) ==
    IF Len(dumpFolder) = 0 THEN ~oob ELSE dumpFolder[Len(dumpFolder)] # Sep

\* The error InitDumpCollection reports for its arguments in the current
\* state, ERROR_SUCCESS when it accepts them: the mutant never looks at
\* _collectDumps.
InitOutcome_reinit(numRetainedMinidumps, dumpFolder, dumpName, oob) ==
    IF numRetainedMinidumps <= 0 \/ dumpFolder = NULL \/ dumpName = NULL
    THEN ERROR_BAD_ARGUMENTS
    ELSE IF \/ wcschr(dumpFolder, "/")
            \/ LastCharIsNotSep(dumpFolder, oob)
            \/ PathIsRelative(dumpFolder)
    THEN ERROR_BAD_ARGUMENTS
    ELSE IF ~CheckDumpNameConstraints(dumpName)
    THEN ERROR_BAD_ARGUMENTS
    ELSE ERROR_SUCCESS

\* The mutant that forgets the test of the trailing separator.
InitOutcome_noTrailingSep(numRetainedMinidumps, dumpFolder, dumpName, oob) ==
    IF _collectDumps
    THEN ERROR_ACCESS_DENIED
    ELSE IF numRetainedMinidumps <= 0 \/ dumpFolder = NULL \/ dumpName = NULL
    THEN ERROR_BAD_ARGUMENTS
    ELSE IF \/ wcschr(dumpFolder, "/")
            \/ PathIsRelative(dumpFolder)
    THEN ERROR_BAD_ARGUMENTS
    ELSE IF ~CheckDumpNameConstraints(dumpName)
    THEN ERROR_BAD_ARGUMENTS
    ELSE ERROR_SUCCESS

InitOutcome(numRetainedMinidumps, dumpFolder, dumpName, oob) ==
    IF _collectDumps
    THEN ERROR_ACCESS_DENIED
    ELSE IF numRetainedMinidumps <= 0 \/ dumpFolder = NULL \/ dumpName = NULL
    THEN ERROR_BAD_ARGUMENTS
    ELSE IF \/ wcschr(dumpFolder, "/")
            \/ LastCharIsNotSep(dumpFolder, oob)
            \/ PathIsRelative(dumpFolder)
    THEN ERROR_BAD_ARGUMENTS
    ELSE IF ~CheckDumpNameConstraints(dumpName)
    THEN ERROR_BAD_ARGUMENTS
    ELSE ERROR_SUCCESS

\* BOOL InitDumpCollection(int numRetainedMinidumps, const wchar_t* dumpFolder,
\*                         const wchar_t* dumpName)
InitDumpCollection(numRetainedMinidumps, dumpFolder, dumpName, oob) ==
    /\ process = "running"
    /\ LET err == InitOutcome(numRetainedMinidumps, dumpFolder, dumpName, oob)
       IN  IF err = ERROR_SUCCESS
           THEN /\ _numRetainedMinidumps' = numRetainedMinidumps
                /\ _dumpFolder' = dumpFolder
                /\ _dumpName' = dumpName
                /\ _minidumpPattern' = dumpFolder \o dumpName \o <<"*">> \o S_dmp
                /\ _collectDumps' = TRUE
                /\ lastError' = lastError
                /\ ret' = [op |-> "InitDumpCollection", value |-> "TRUE"]
           ELSE /\ lastError' = err
                /\ ret' = [op |-> "InitDumpCollection", value |-> "FALSE"]
                /\ UNCHANGED config
    /\ UNCHANGED <<scratch, cap, fs, handles, clock, process, numCaptures>>

----------------------------------------------------------------------------
(* The file system, as the Win32 calls of this file see it. *)

\* A drive root such as "C:" always exists.
IsDriveRoot(p) == Len(p) = 2 /\ p[2] = ":"

\* The empty path names the current directory.
DirExists(p, d) == p \in d \/ IsDriveRoot(p) \/ Len(p) = 0

\* A file is kept as its directory, its name and its last-write time.
PathOf(x) == x.dir \o <<Sep>> \o x.name

FileAt(path, time) == [dir |-> DirOf(path), name |-> NameOf(path), time |-> time]

FilePaths(f) == { PathOf(x) : x \in f }

\* Characters no file or directory name may hold (the ':' of the drive aside).
InvalidPath(p) == \E i \in 3..Len(p) : p[i] \in {":", "*", "?", "\"", "<", ">", "|"}

\* CreateDirectory(folder.c_str(), &attr): allowed is the environment's answer
\* when the directory is missing and could be created.
CreateDirectory(p, d, f, allowed) ==
    IF Len(p) = 0 THEN [ok |-> FALSE, err |-> ERROR_PATH_NOT_FOUND, dirs |-> d]
    ELSE IF p \in d \/ p \in FilePaths(f)
    THEN [ok |-> FALSE, err |-> ERROR_ALREADY_EXISTS, dirs |-> d]
    ELSE IF ~DirExists(DirOf(p), d)
    THEN [ok |-> FALSE, err |-> ERROR_PATH_NOT_FOUND, dirs |-> d]
    ELSE IF ~allowed
    THEN [ok |-> FALSE, err |-> ERROR_ACCESS_DENIED, dirs |-> d]
    ELSE [ok |-> TRUE, err |-> ERROR_SUCCESS, dirs |-> d \cup {p}]

\* Wildcard match of a file name against a pattern holding one '*'.
GlobMatch(glob, name) ==
    IF ~wcschr(glob, "*") THEN glob = name ELSE
    LET star == CHOOSE i \in 1..Len(glob) : glob[i] = "*"
        prefix == SubSeq(glob, 1, star - 1)
        suffix == SubSeq(glob, star + 1, Len(glob))
    IN  /\ Len(name) >= Len(prefix) + Len(suffix)
        /\ SubSeq(name, 1, Len(prefix)) = prefix
        /\ SubSeq(name, Len(name) - Len(suffix) + 1, Len(name)) = suffix

\* The files FindFirstFile/FindNextFile enumerate for a pattern.
Matching(pattern, f) ==
    LET dir == DirOf(pattern)
        glob == NameOf(pattern)
    IN  { x \in f : x.dir = dir /\ GlobMatch(glob, x.name) }

\* The error of FindFirstFile(pattern), ERROR_SUCCESS when it returns a handle.
FindFirstFile(pattern, d, f, allowed) ==
    IF ~DirExists(DirOf(pattern), d) THEN ERROR_PATH_NOT_FOUND
    ELSE IF ~allowed THEN ERROR_ACCESS_DENIED
    ELSE IF Matching(pattern, f) = {} THEN ERROR_FILE_NOT_FOUND
    ELSE ERROR_SUCCESS

\* DeleteFile(path): fails on a name that is no file, on a file the
\* environment keeps locked and on a file this process still holds open.
DeleteFile(path, f, locked, open) ==
    IF InvalidPath(path) THEN [ok |-> FALSE, err |-> ERROR_INVALID_NAME, files |-> f]
    ELSE IF path \notin FilePaths(f)
    THEN [ok |-> FALSE, err |-> ERROR_FILE_NOT_FOUND, files |-> f]
    ELSE IF path \in open
    THEN [ok |-> FALSE, err |-> ERROR_SHARING_VIOLATION, files |-> f]
    ELSE IF path \in locked
    THEN [ok |-> FALSE, err |-> ERROR_ACCESS_DENIED, files |-> f]
    ELSE [ok |-> TRUE, err |-> ERROR_SUCCESS, files |-> { x \in f : PathOf(x) # path }]

\* CreateFile(path, GENERIC_READ | GENERIC_WRITE, 0, NULL, CREATE_ALWAYS, ...):
\* creates or truncates the file and stamps it with the time now.
CreateFile(path, d, f, open, now, allowed) ==
    IF InvalidPath(path) \/ Len(NameOf(path)) = 0
    THEN [ok |-> FALSE, err |-> ERROR_INVALID_NAME, files |-> f]
    ELSE IF ~DirExists(DirOf(path), d)
    THEN [ok |-> FALSE, err |-> ERROR_PATH_NOT_FOUND, files |-> f]
    ELSE IF path \in d
    THEN [ok |-> FALSE, err |-> ERROR_ACCESS_DENIED, files |-> f]
    ELSE IF path \in open
    THEN [ok |-> FALSE, err |-> ERROR_SHARING_VIOLATION, files |-> f]
    ELSE IF ~allowed
    THEN [ok |-> FALSE, err |-> ERROR_ACCESS_DENIED, files |-> f]
    ELSE [ok |-> TRUE, err |-> ERROR_SUCCESS,
          files |-> { x \in f : PathOf(x) # path } \cup {FileAt(path, now)}]

\* Last-write time of a file written at second c of the run; the files found
\* at start carry the times 1..MaxOldFiles.
FileTimeNow(c) == MaxOldFiles + 1 + c

\* GetLocalTime(&time): the run starts on 9 March 2024 at 23:59:59.
GetLocalTime(c) ==
    LET total == 23 * 3600 + 59 * 60 + 59 + c
    IN  [wYear |-> 2024, wMonth |-> 3, wDay |-> 9 + (total \div 86400),
         wHour |-> (total \div 3600) % 24, wMinute |-> (total \div 60) % 60,
         wSecond |-> total % 60]

----------------------------------------------------------------------------
(* The steps of a capture. *)

\* The loop of CreateMinidumpFolder from position i of _dumpFolder on: one
\* CreateDirectory per prefix that ends before a separator, the drive aside.
RECURSIVE MakeFolders(_, _, _, _, _)
MakeFolders(folder, i, d, f, allowed) ==
    IF i > Len(folder) THEN [ok |-> TRUE, err |-> ERROR_SUCCESS, dirs |-> d]
    ELSE IF folder[i] # Sep THEN MakeFolders(folder, i + 1, d, f, allowed)
    ELSE LET prefix == SubSeq(folder, 1, i - 1)
         IN  IF Len(prefix) = 2 /\ prefix[2] = ":"
             THEN MakeFolders(folder, i + 1, d, f, allowed)
             ELSE LET r == CreateDirectory(prefix, d, f, allowed)
                  IN  IF ~r.ok /\ r.err # ERROR_ALREADY_EXISTS
                      THEN [ok |-> FALSE, err |-> r.err, dirs |-> r.dirs]
                      ELSE MakeFolders(folder, i + 1, r.dirs, f, allowed)

\* BOOL CreateMinidumpFolder()
CreateMinidumpFolder(d, f, allowed) == MakeFolders(_dumpFolder, 1, d, f, allowed)

\* The answers the environment may give to a call of a capture in which the
\* calls named in faults failed already on its account: TRUE lets it succeed.
Answers(faults) == IF Cardinality(faults) < MaxFaults THEN BOOLEAN ELSE {TRUE}

\* The do-while loop of RemoveOldMinidumps with the entries rest still to come
\* from FindNextFile, in any order.  st carries numFiles, oldestFileTime,
\* _oldestFileFullName, _tmpPath, the files on disk, the entries seen, the
\* paths handed to DeleteFile so far and the entries seen at each of these
\* calls.  The result is the set of states the loop may end in.
RECURSIVE ScanEntries(_, _, _)
ScanEntries(rest, st, open) ==
    IF rest = {} THEN {st}
    ELSE UNION {
        LET cFileName == fd.cFileName
            later == rest \ {fd}
        IN  IF cFileName = <<".">> \/ cFileName = <<".", ".">>
            THEN ScanEntries(later, st, open)
            ELSE LET tmp == _minidumpPattern \o cFileName
                     older == st.numFiles = 0 \/ st.oldestFileTime > fd.ftLastWriteTime
                     oldestTime == IF older THEN fd.ftLastWriteTime ELSE st.oldestFileTime
                     oldestName == IF older THEN tmp ELSE st.oldest
                     seen == st.seen \cup {fd}
                 IN  IF st.numFiles + 1 >= _numRetainedMinidumps
                     THEN UNION {
                         LET locked == IF unlocked THEN {} ELSE {oldestName}
                             r == DeleteFile(oldestName, st.files, locked, open)
                             st2 == [st EXCEPT !.oldestFileTime = oldestTime,
                                               !.oldest = oldestName,
                                               !.tmpPath = tmp,
                                               !.files = r.files,
                                               !.calls = Append(st.calls, oldestName),
                                               !.seen = seen,
                                               !.seenAt = Append(st.seenAt, seen),
                                               !.err = r.err]
                         IN  IF ~r.ok
                             THEN {[st2 EXCEPT !.ok = FALSE]}
                             ELSE ScanEntries(later, st2, open) : unlocked \in Answers({}) }
                     ELSE ScanEntries(later,
                                      [st EXCEPT !.oldestFileTime = oldestTime,
                                                 !.oldest = oldestName,
                                                 !.tmpPath = tmp,
                                                 !.seen = seen,
                                                 !.numFiles = st.numFiles + 1],
                                      open) : fd \in rest }

\* The entries FindFirstFile/FindNextFile return for the files M.
Entries(M) == { [cFileName |-> x.name, ftLastWriteTime |-> x.time] : x \in M }

\* BOOL RemoveOldMinidumps(): the set of outcomes, one per answer of the
\* environment to FindFirstFile and DeleteFile and per enumeration order.
RemoveOldMinidumps(d, f, open) ==
    LET st0 == [ok |-> TRUE, err |-> ERROR_SUCCESS, numFiles |-> 0, oldestFileTime |-> 0,
                oldest |-> _oldestFileFullName, tmpPath |-> _tmpPath,
                files |-> f, seen |-> {}, calls |-> <<>>, seenAt |-> <<>>]
    IN  UNION {
            LET err == FindFirstFile(_minidumpPattern, d, f, findAllowed)
            IN  IF err = ERROR_FILE_NOT_FOUND THEN {[st0 EXCEPT !.err = err]}
                ELSE IF err # ERROR_SUCCESS THEN {[st0 EXCEPT !.ok = FALSE, !.err = err]}
                ELSE ScanEntries(Entries(Matching(_minidumpPattern, f)), st0, open)
            : findAllowed \in Answers({}) }

\* The day and the month get a leading '0' below 10; the other fields are
\* written as they are.
TwoDigits(n) == IF n < 10 THEN <<"0">> \o Decimal(n) ELSE Decimal(n)

\* The date and time as CreateMinidumpFileName writes them.
DateTimeStamp(time) ==
    TwoDigits(time.wDay) \o <<".">>
        \o TwoDigits(time.wMonth)
        \o <<".">> \o Decimal(time.wYear)
        \o <<" ", "-", " ">> \o Decimal(time.wHour) \o <<"_">> \o Decimal(time.wMinute)
        \o <<"_">> \o Decimal(time.wSecond)

\* The mutant of CreateMinidumpFileName that leaves out `name << _dumpFolder`.
CreateMinidumpFileName_noFolder(time) ==
    _minidumpStringBuilder
        \o _dumpName \o <<"_">> \o DateTimeStamp(time) \o S_dmp

\* void CreateMinidumpFileName(): what the stream holds after the call, which
\* is also the new _minidumpFileName.  The stream _minidumpStringBuilder is
\* written to and never emptied.
CreateMinidumpFileName(time) ==
    _minidumpStringBuilder
        \o _dumpFolder \o _dumpName \o <<"_">> \o DateTimeStamp(time) \o S_dmp

\* The record of a capture that did not run.
IdleCap ==
    [entered |-> FALSE, exc |-> NULL, before |-> {}, folderOk |-> FALSE,
     retention |-> "notrun", findError |-> ERROR_SUCCESS, calls |-> <<>>,
     seenAt |-> <<>>,
     afterScan |-> {}, path |-> NULL, created |-> FALSE, resolved |-> FALSE,
     facility |-> "notcalled", processId |-> 0, exceptionParam |-> NULL, closed |-> FALSE,
     faults |-> {}]

\* "We shouldn't be persuaded to give up writing the minidump just because we
\* failed to remove old dumps": the result of RemoveOldMinidumps is logged only.
\* The mutant gives up.
ProceedAfterRetention_giveUp(removed) == removed

ProceedAfterRetention(removed) == TRUE

\* `if (CreateMinidumpFolder() == FALSE) return;`  The mutant goes on without
\* the folder.
GiveUpWithoutFolder_never(created) == FALSE

GiveUpWithoutFolder(created) == ~created

\* CloseHandle(hFile) follows the call of MiniDumpWriteDump whatever it returned.
\* The mutant closes after a successful write only.
CloseAfterWrite_onSuccess(rv) == rv

CloseAfterWrite(rv) == TRUE

\* MINIDUMP_EXCEPTION_INFORMATION info, as <<ThreadId, ExceptionPointers, ClientPointers>>.
\* The mutant leaves ClientPointers FALSE.
ExceptionInfo_noClientPointers(exceptionPointers) == <<"tid", exceptionPointers[1], "FALSE">>

ExceptionInfo(exceptionPointers) == <<"tid", exceptionPointers[1], "TRUE">>

\* void CreateMiniDump(EXCEPTION_POINTERS* exceptionPointers, HANDLE processHandle,
\*                     int processId, const wchar_t* dumpName)
\* dumpName is used nowhere in the function: the name is built from _dumpName.
\* The outcomes of the call, one per answer of the environment: each holds the
\* new values of the file system, the scratch strings and the open file
\* handles, with the record of the steps taken.
CreateMiniDumpTo(exceptionPointers, processId, dumpName) ==
    LET start == [dirs |-> dirs, files |-> files, builder |-> _minidumpStringBuilder,
                  fileName |-> _minidumpFileName, tmpPath |-> _tmpPath,
                  oldest |-> _oldestFileFullName, openFiles |-> openFiles,
                  err |-> ERROR_SUCCESS,
                  cap |-> [IdleCap EXCEPT !.entered = TRUE, !.exc = exceptionPointers,
                                          !.before = files]]
        \* MiniDumpWriteDump returned rv; CloseHandle(hFile)
        Written(opened, rv) ==
            LET written == [opened EXCEPT
                              !.cap.resolved = TRUE,
                              !.cap.facility = IF rv THEN "TRUE" ELSE "FALSE",
                              !.cap.processId = processId,
                              !.cap.exceptionParam =
                                  IF exceptionPointers # NULL
                                  THEN ExceptionInfo(exceptionPointers) ELSE NULL,
                              !.cap.faults = IF rv THEN @ ELSE @ \cup {"write"}]
            IN  IF CloseAfterWrite(rv)
                THEN [written EXCEPT !.openFiles = openFiles, !.cap.closed = TRUE]
                ELSE written
        \* LoadLibrary, GetProcAddress, MiniDumpWriteDump
        Opened(opened) ==
            UNION { IF ~lib
                    THEN {[opened EXCEPT !.cap.faults = @ \cup {"lib"}]}
                    ELSE UNION { IF ~proc
                                 THEN {[opened EXCEPT !.cap.faults = @ \cup {"proc"}]}
                                 ELSE { Written(opened, rv) : rv \in Answers(opened.cap.faults) }
                                 : proc \in Answers(opened.cap.faults) }
                    : lib \in Answers(opened.cap.faults) }
        \* CreateMinidumpFileName, CreateFile
        Scanned(folder, scan) ==
            LET scanFaults == IF scan.err = ERROR_ACCESS_DENIED
                              THEN (IF scan.calls = <<>> THEN {"find"} ELSE {"delete"})
                              ELSE {}
                scanned == [start EXCEPT !.dirs = folder.dirs, !.files = scan.files,
                                         !.tmpPath = scan.tmpPath, !.oldest = scan.oldest,
                                         !.err = scan.err,
                                         !.cap.folderOk = folder.ok,
                                         !.cap.retention = IF scan.ok THEN "TRUE" ELSE "FALSE",
                                         !.cap.findError = IF scan.calls = <<>> THEN scan.err
                                                           ELSE ERROR_SUCCESS,
                                         !.cap.calls = scan.calls,
                                         !.cap.seenAt = scan.seenAt,
                                         !.cap.afterScan = scan.files,
                                         !.cap.faults = scanFaults]
            IN  IF ~ProceedAfterRetention(scan.ok) THEN {scanned}
                ELSE
                LET name == CreateMinidumpFileName(GetLocalTime(clock))
                    named == [scanned EXCEPT !.builder = name, !.fileName = name,
                                             !.cap.path = name]
                IN  UNION {
                        LET file == CreateFile(name, folder.dirs, scan.files, openFiles,
                                               FileTimeNow(clock), create)
                        IN  IF ~file.ok
                            THEN {[named EXCEPT
                                     !.err = file.err,
                                     !.cap.faults = IF ~create /\ file.err = ERROR_ACCESS_DENIED
                                                    THEN @ \cup {"create"} ELSE @]}
                            ELSE Opened([named EXCEPT !.files = file.files,
                                                      !.cap.created = TRUE,
                                                      !.openFiles = @ \cup {name}])
                        : create \in Answers(scanned.cap.faults) }
        \* CreateMinidumpFolder, RemoveOldMinidumps
        Provisioned(folder) ==
            IF GiveUpWithoutFolder(folder.ok)
            THEN {[start EXCEPT !.dirs = folder.dirs, !.err = folder.err,
                                !.cap.faults = IF folder.err = ERROR_ACCESS_DENIED
                                               THEN {"mkdir"} ELSE {}]}
            ELSE UNION { Scanned(folder, scan) :
                         scan \in RemoveOldMinidumps(folder.dirs, files, openFiles) }
    IN  UNION { Provisioned(CreateMinidumpFolder(dirs, files, mkdir)) : mkdir \in Answers({}) }

\* The state after a capture that returned r.
Captured(r) ==
    /\ dirs' = r.dirs
    /\ files' = r.files
    /\ _minidumpStringBuilder' = r.builder
    /\ _minidumpFileName' = r.fileName
    /\ _tmpPath' = r.tmpPath
    /\ _oldestFileFullName' = r.oldest
    /\ openFiles' = r.openFiles
    /\ cap' = r.cap
    /\ lastError' = IF r.err = ERROR_SUCCESS THEN lastError ELSE r.err
    /\ numCaptures' = numCaptures + 1

\* The state after a capture that was refused before its first step.
NotCaptured ==
    /\ cap' = IdleCap
    /\ UNCHANGED <<scratch, fs, openFiles, numCaptures>>

----------------------------------------------------------------------------
(* The handlers and the exported functions. *)

\* The fault context of an unhandled exception.
Context == <<"ctx">>

\* `if (_collectDumps)` of CreateMiniDump(EXCEPTION_POINTERS*); the mutant
\* captures unconditionally.
FaultCaptureArmed_always == TRUE

FaultCaptureArmed == _collectDumps

\* void CreateMiniDump(EXCEPTION_POINTERS* exceptionPointers)
CreateMiniDumpOf(exceptionPointers) ==
    IF FaultCaptureArmed
    THEN /\ numCaptures < MaxCaptures
         /\ \E r \in CreateMiniDumpTo(exceptionPointers, OwnPid, _dumpName) : Captured(r)
    ELSE /\ NotCaptured
         /\ lastError' = lastError

\* void failfast(): abort() does not return.  The mutant returns.
failfast_returns == "running"

failfast == "aborted"

\* LONG WINAPI OnUnhandledException(struct _EXCEPTION_POINTERS *exceptionPointers)
OnUnhandledException ==
    /\ process = "running"
    /\ CreateMiniDumpOf(Context)
    /\ ret' = [op |-> "OnUnhandledException", value |-> EXCEPTION_EXECUTE_HANDLER]
    /\ process' = "terminated"
    /\ UNCHANGED <<config, openProcs, clock>>

\* void __cdecl OnCrtAssert(const wchar_t* message, const wchar_t* file, unsigned lineNumber)
OnCrtAssert ==
    /\ process = "running"
    /\ CreateMiniDumpOf(NULL)
    /\ ret' = [op |-> "OnCrtAssert", value |-> "noreturn"]
    /\ process' = failfast
    /\ UNCHANGED <<config, openProcs, clock>>

\* void __cdecl OnCrtPurecall()
OnCrtPurecall ==
    /\ process = "running"
    /\ CreateMiniDumpOf(NULL)
    /\ ret' = [op |-> "OnCrtPurecall", value |-> "noreturn"]
    /\ process' = failfast
    /\ UNCHANGED <<config, openProcs, clock>>

\* CloseHandle(hProcess): one open process handle less.  The mutant leaves the
\* handle open.
CloseProcessHandle_leak(n) == n

CloseProcessHandle(n) == n - 1

\* BOOL CreateMiniDump(int processId, const wchar_t* dumpName): openAllowed is
\* the environment's answer to OpenProcess.
CreateMiniDump(processId, dumpName, openAllowed) ==
    /\ process = "running"
    /\ IF _collectDumps = FALSE
       THEN /\ lastError' = ERROR_ACCESS_DENIED
            /\ ret' = [op |-> "CreateMiniDump", value |-> "FALSE"]
            /\ NotCaptured
            /\ UNCHANGED openProcs
       ELSE IF ~CheckDumpNameConstraints(dumpName)
       THEN /\ lastError' = ERROR_BAD_ARGUMENTS
            /\ ret' = [op |-> "CreateMiniDump", value |-> "FALSE"]
            /\ NotCaptured
            /\ UNCHANGED openProcs
       ELSE IF ~openAllowed
       THEN /\ lastError' = ERROR_ACCESS_DENIED
            /\ ret' = [op |-> "CreateMiniDump", value |-> "FALSE"]
            /\ NotCaptured
            /\ UNCHANGED openProcs
       ELSE /\ numCaptures < MaxCaptures
            /\ \E r \in CreateMiniDumpTo(NULL, processId, dumpName) : Captured(r)
            /\ openProcs' = CloseProcessHandle(openProcs + 1)
            /\ ret' = [op |-> "CreateMiniDump", value |-> "TRUE"]
    /\ UNCHANGED <<config, clock, process>>

\* A second passes on the local clock.
Tick ==
    /\ process = "running"
    /\ clock < MaxClock
    /\ clock' = clock + 1
    /\ UNCHANGED <<config, scratch, lastError, ret, cap, fs, handles, process, numCaptures>>

----------------------------------------------------------------------------
(* The specification. *)

\* A dump file an earlier run of the program left in the folder.
OldFile(i) == FileAt(S_folder \o S_app \o Digit(i) \o S_dmp, i)

\* A file in the folder that is no dump of "app".
OtherFile == FileAt(S_folder \o <<"x">> \o S_dmp, 1)

\* The file systems the process may start on: the folder C:\d with the dumps
\* of some earlier runs and a folder \d on the current drive, no folder at all,
\* or a file where the folder should be.
InitialFileSystems ==
    { <<{DirOf(S_folder), <<Sep, "d">>}, { OldFile(i) : i \in 1..k } \cup {OtherFile}>> :
          k \in 0..MaxOldFiles }
        \cup { <<{}, {}>>, <<{}, {FileAt(DirOf(S_folder), 1)}>> }

Init ==
    /\ _collectDumps = FALSE
    /\ _numRetainedMinidumps = 0
    /\ _dumpFolder = <<>>
    /\ _dumpName = <<>>
    /\ _minidumpStringBuilder = <<>>
    /\ _minidumpFileName = <<>>
    /\ _minidumpPattern = <<>>
    /\ _tmpPath = <<>>
    /\ _oldestFileFullName = <<>>
    /\ lastError = ERROR_SUCCESS
    /\ ret = [op |-> "none", value |-> "none"]
    /\ cap = IdleCap
    /\ \E fsys \in InitialFileSystems : dirs = fsys[1] /\ files = fsys[2]
    /\ openFiles = {}
    /\ openProcs = 0
    /\ clock = 0
    /\ process = "running"
    /\ numCaptures = 0

\* The arguments InitDumpCollection is called with.  Once _collectDumps is
\* set the call returns before it reads any of them, so that the repeated
\* calls are drawn from fewer.
InitArgs ==
    IF _collectDumps
    THEN {0, MaxRetained} \X {NULL, S_folder} \X {NULL, S_app}
    ELSE CountArgs \X FolderArgs \X NameArgs

\* What dumpFolder[dumpFolderLength - 1] may read: past the array when the
\* folder is empty, the last character otherwise.
OutOfBounds(folder) == IF folder = <<>> THEN BOOLEAN ELSE {FALSE}

Next ==
    \/ \E a \in InitArgs : \E oob \in OutOfBounds(a[2]) :
          InitDumpCollection(a[1], a[2], a[3], oob)
    \/ OnUnhandledException
    \/ OnCrtAssert
    \/ OnCrtPurecall
    \/ \E dumpName \in DumpNameArgs, openAllowed \in BOOLEAN :
          CreateMiniDump(OtherPid, dumpName, openAllowed)
    \/ Tick

Spec == Init /\ [][Next]_vars

----------------------------------------------------------------------------
(* CheckDumpNameConstraints on its own: the name to test is held in _dumpName,
   the answer is returned in ret. *)

MaxNameLen == 3        \* longest name handed to CheckDumpNameConstraints

\* An ordinary character and the characters the function looks for.
NameChars == {"a", ".", "/", Sep, ":", "*", "?", "\""}

\* The names of at most MaxNameLen characters.
NameStrings == UNION { [1..k -> NameChars] : k \in 0..MaxNameLen }

NameInit ==
    /\ _collectDumps = FALSE
    /\ _numRetainedMinidumps = 0
    /\ _dumpFolder = <<>>
    /\ _dumpName \in NameStrings
    /\ _minidumpStringBuilder = <<>>
    /\ _minidumpFileName = <<>>
    /\ _minidumpPattern = <<>>
    /\ _tmpPath = <<>>
    /\ _oldestFileFullName = <<>>
    /\ lastError = ERROR_SUCCESS
    /\ ret = [op |-> "none", value |-> "none"]
    /\ cap = IdleCap
    /\ dirs = {}
    /\ files = {}
    /\ openFiles = {}
    /\ openProcs = 0
    /\ clock = 0
    /\ process = "running"
    /\ numCaptures = 0

\* One call of CheckDumpNameConstraints(_dumpName).
CheckName ==
    /\ ret.op = "none"
    /\ ret' = [op |-> "CheckDumpNameConstraints",
               value |-> IF CheckDumpNameConstraints(_dumpName) THEN "TRUE" ELSE "FALSE"]
    /\ UNCHANGED <<config, scratch, lastError, cap, fs, handles, clock, process, numCaptures>>

NameNext == CheckName

NameSpec == NameInit /\ [][NameNext]_vars

----------------------------------------------------------------------------
(* Steps of the exported functions and the handlers, for the properties. *)

InitStep ==
    \E a \in InitArgs : \E oob \in OutOfBounds(a[2]) :
        InitDumpCollection(a[1], a[2], a[3], oob)

OnDemandStep ==
    \E dumpName \in DumpNameArgs, openAllowed \in BOOLEAN :
        CreateMiniDump(OtherPid, dumpName, openAllowed)

\* A step in which a capture ran its pipeline.
CaptureStep == numCaptures' = numCaptures + 1

FaultHandlers == {"OnUnhandledException", "OnCrtAssert", "OnCrtPurecall"}

\* The dump files of the configured name among the files f.
Dumps(f) == Matching(_minidumpPattern, f)

\* The n most recently written files of M.
Newest(M, n) == { x \in M : Cardinality({ y \in M : y.time > x.time }) < n }

----------------------------------------------------------------------------
(* C1: once InitDumpCollection has succeeded, the state stays Armed, no step
   changes retainedCount, outputFolder, baseName or the pattern, and every
   further InitDumpCollection returns FALSE with ERROR_ACCESS_DENIED. *)
C1_InitOnce ==
    /\ [][ _collectDumps =>
             /\ _collectDumps'
             /\ config' = config
             /\ InitStep => /\ ret'.op = "InitDumpCollection"
                            /\ ret'.value = "FALSE"
                            /\ lastError' = ERROR_ACCESS_DENIED ]_vars
    /\ [](_collectDumps =>
            \A n \in CountArgs, folder \in FolderArgs, name \in NameArgs :
               \A oob \in OutOfBounds(folder) :
                  InitOutcome(n, folder, name, oob) = ERROR_ACCESS_DENIED)

\* A second InitDumpCollection was refused in the Armed state.
C1_Witness ==
    /\ _collectDumps
    /\ ret.op = "InitDumpCollection"
    /\ ret.value = "FALSE"
    /\ lastError = ERROR_ACCESS_DENIED

\* The rules the claim lists for the arguments of InitDumpCollection.
ListedRules(n, folder, name) ==
    /\ n > 0
    /\ folder # NULL
    /\ name # NULL
    /\ ~PathIsRelative(folder)
    /\ Len(folder) > 0 /\ folder[Len(folder)] = Sep
    /\ CheckDumpNameConstraints(name)

\* What C2 says of a call from Uninitialized whose arguments are valid or not.
InitFromUninitialized(n, folder, name, oob, valid) ==
    InitDumpCollection(n, folder, name, oob) =>
        IF valid
        THEN /\ ret'.value = "TRUE"
             /\ _collectDumps'
        ELSE /\ ret'.value = "FALSE"
             /\ lastError' = ERROR_BAD_ARGUMENTS
             /\ ~_collectDumps'
             /\ config' = config

(* C2 as stated: from Uninitialized, a call that breaks one of the listed
   rules (count, null folder, null name, absolute, trailing separator, name
   validator) fails with ERROR_BAD_ARGUMENTS and changes nothing, and a call
   that keeps all of them succeeds and arms. *)
C2_AsStated ==
    [][ ~_collectDumps =>
          \A n \in CountArgs, folder \in FolderArgs, name \in NameArgs :
             \A oob \in OutOfBounds(folder) :
                InitFromUninitialized(n, folder, name, oob,
                    ListedRules(n, folder, name)) ]_vars

(* C2, amended: the same, with "the folder holds no '/'" among the rules. *)
C2_InitValidation ==
    [][ ~_collectDumps =>
          \A n \in CountArgs, folder \in FolderArgs, name \in NameArgs :
             \A oob \in OutOfBounds(folder) :
                InitFromUninitialized(n, folder, name, oob,
                    ListedRules(n, folder, name) /\ ~wcschr(folder, "/")) ]_vars

\* A call was refused for its arguments in the Uninitialized state.
C2_Witness ==
    /\ ~_collectDumps
    /\ ret.op = "InitDumpCollection"
    /\ ret.value = "FALSE"
    /\ lastError = ERROR_BAD_ARGUMENTS

(* C3: while Uninitialized no step creates a directory, deletes or creates a
   file, opens a file or runs any step of a capture; the on-demand call
   returns FALSE with ERROR_ACCESS_DENIED and the handlers return. *)
C3_NoCaptureUninitialized ==
    /\ [][ ~_collectDumps =>
             /\ fs' = fs
             /\ handles' = handles
             /\ scratch' = scratch
             /\ cap' = IdleCap
             /\ OnDemandStep => ret'.value = "FALSE" /\ lastError' = ERROR_ACCESS_DENIED
             /\ OnUnhandledException => ret'.value = EXCEPTION_EXECUTE_HANDLER ]_vars
    /\ [](~_collectDumps => cap.facility = "notcalled")

\* A capture was asked for in the Uninitialized state.
C3_Witness ==
    /\ ~_collectDumps
    /\ ret.op \in FaultHandlers \cup {"CreateMiniDump"}

(* C4: when the retention scan runs on a folder that holds at least
   retainedCount dump files (of pairwise different times) and the environment
   fails no call of it, then after the scan, in whatever order the files were
   enumerated, the folder holds exactly the retainedCount newest of them. *)
C4_KeepsNewest ==
    ( /\ cap.retention # "notrun"
      /\ cap.faults \cap {"find", "delete"} = {}
      /\ Cardinality(Dumps(cap.before)) >= _numRetainedMinidumps )
    => Dumps(cap.afterScan) = Newest(Dumps(cap.before), _numRetainedMinidumps)

(* C5: a capture that starts with at most retainedCount dump files in the
   folder and in which the environment fails no call leaves at most
   retainedCount dump files, the one it wrote among them. *)
C5_Quota ==
    [][ ( /\ CaptureStep
          /\ Cardinality(Dumps(files)) <= _numRetainedMinidumps
          /\ cap'.faults = {} )
        => /\ Cardinality(Dumps(files')) <= _numRetainedMinidumps
           /\ cap'.path \in FilePaths(Dumps(files')) ]_vars

(* C6: the path a capture opens is outputFolder + baseName + '_' + the stamp
   of the local time of that capture + ".dmp", whatever was captured before. *)
C6_FreshName ==
    [][ (CaptureStep /\ cap'.path # NULL)
        => cap'.path = _dumpFolder \o _dumpName \o <<"_">>
                          \o DateTimeStamp(GetLocalTime(clock)) \o S_dmp ]_vars

(* C7: a capture whose retention step failed still builds the file name and
   goes on to open the output file, and invokes the dump-writing facility when
   the file was opened and the facility was resolved; in the first capture of
   a process, with the folder in place and no failure of CreateFile, LoadLibrary
   or GetProcAddress, the file is created and the facility invoked. *)
C7_RetentionFailureIgnored ==
    (cap.entered /\ cap.retention = "FALSE")
    => /\ cap.path # NULL
       /\ (cap.created /\ cap.faults \cap {"lib", "proc"} = {}) => cap.facility # "notcalled"
       /\ ( /\ numCaptures = 1
            /\ DirOf(_dumpFolder) \in dirs
            /\ cap.faults \cap {"create", "lib", "proc"} = {} )
          => (cap.created /\ cap.facility # "notcalled")

\* A capture wrote its dump although its retention step had failed.
C7_Witness ==
    /\ cap.retention = "FALSE"
    /\ cap.facility = "TRUE"
    /\ cap.path \in FilePaths(files)

(* C8: the retention scan returns success and deletes nothing when no file
   matches the pattern, be it that the folder holds none or that the folder
   does not exist. *)
C8_NothingToScan ==
    ( /\ cap.retention # "notrun"
      /\ "find" \notin cap.faults
      /\ Dumps(cap.before) = {} )
    => /\ cap.retention = "TRUE"
       /\ cap.calls = <<>>
       /\ cap.afterScan = cap.before

(* C9: a capture that invoked the dump-writing facility has closed the output
   file when it returns, whether the facility reported success or failure, and
   it returns to its caller: the on-demand call then returns TRUE and the
   handlers go on to their disposition. *)
C9_FileClosed ==
    /\ []((cap.entered /\ cap.facility # "notcalled")
            => (cap.closed /\ cap.path \notin openFiles))
    /\ [][ (CaptureStep /\ cap'.facility # "notcalled")
            => /\ openFiles' = openFiles
               /\ ret'.op = "CreateMiniDump" => ret'.value = "TRUE"
               /\ ret'.op = "OnUnhandledException" => ret'.value = EXCEPTION_EXECUTE_HANDLER
               /\ ret'.op \in {"OnCrtAssert", "OnCrtPurecall"} => process' = "aborted" ]_vars

\* The facility reported failure and the file was closed.
C9_Witness ==
    /\ cap.facility = "FALSE"
    /\ cap.closed
    /\ openFiles = {}

(* C10: after the assertion and the pure-virtual-call handler the process is
   aborted, after the unhandled-exception handler the disposition returned is
   EXCEPTION_EXECUTE_HANDLER; in the Armed state each of them ran the capture
   first, the exception handler with its context, the others with none; and a
   process that left the running state takes no further step. *)
C10_FaultPolicy ==
    /\ [](ret.op \in {"OnCrtAssert", "OnCrtPurecall"}
            => /\ process = "aborted"
               /\ ret.value = "noreturn"
               /\ _collectDumps => (cap.entered /\ cap.exc = NULL))
    /\ [](ret.op = "OnUnhandledException"
            => /\ ret.value = EXCEPTION_EXECUTE_HANDLER
               /\ _collectDumps => (cap.entered /\ cap.exc = Context))
    /\ [][process = "running"]_vars

\* The pure-virtual-call handler wrote a dump and the process was aborted.
C10_Witness ==
    /\ ret.op = "OnCrtPurecall"
    /\ process = "aborted"
    /\ cap.facility = "TRUE"

(* C11: CreateMiniDump(processId, dumpName) fails with ERROR_ACCESS_DENIED
   when collection was never initialized, whatever the name; when armed it
   fails with ERROR_BAD_ARGUMENTS for a name the validator rejects, and fails
   when the process cannot be opened; none of the three touches the file
   system or runs a step of a capture; and no process handle stays open. *)
C11_OnDemandFailures ==
    /\ [][ (ret'.op = "CreateMiniDump" /\ clock' = clock) =>
           /\ openProcs' = openProcs
           /\ ret'.value = "TRUE" => (_collectDumps /\ cap'.entered)
           /\ \A dumpName \in DumpNameArgs, openAllowed \in BOOLEAN :
                ( /\ ~_collectDumps \/ ~CheckDumpNameConstraints(dumpName) \/ ~openAllowed
                  /\ CreateMiniDump(OtherPid, dumpName, openAllowed) )
                => /\ ret'.value = "FALSE"
                   /\ fs' = fs /\ cap' = IdleCap /\ openFiles' = openFiles
                   /\ ~_collectDumps => lastError' = ERROR_ACCESS_DENIED
                   /\ (_collectDumps /\ ~CheckDumpNameConstraints(dumpName))
                         => lastError' = ERROR_BAD_ARGUMENTS ]_vars
    /\ [](openProcs = 0)

\* An on-demand capture ran, and an armed call was refused for its name.
C11_Witness ==
    /\ _collectDumps
    /\ numCaptures > 0
    /\ ret = [op |-> "CreateMiniDump", value |-> "FALSE"]
    /\ lastError = ERROR_BAD_ARGUMENTS
    /\ cap = IdleCap
    /\ openProcs = 0

\* The names the claim lists as rejected: the empty one and those holding one
\* of / \ : * ? " or two dots in a row.
ListedAsRejected(name) ==
    \/ name = <<>>
    \/ \E i \in DOMAIN name : name[i] \in {"/", Sep, ":", "*", "?", "\""}
    \/ \E i \in DOMAIN name : i < Len(name) /\ name[i] = "." /\ name[i + 1] = "."

(* C12: CheckDumpNameConstraints returns FALSE for the empty name and for
   every name holding '/', '\', "..", ':', '*', '?' or '"', and TRUE for every
   other name, a name with single dots among them. *)
C12_NameValidator ==
    ret.op = "CheckDumpNameConstraints"
    => (ret.value = "FALSE" <=> ListedAsRejected(_dumpName))

\* A name with a single '.' was accepted.
C12_Witness ==
    /\ ret = [op |-> "CheckDumpNameConstraints", value |-> "TRUE"]
    /\ wcschr(_dumpName, ".")

\* Every segment of folder, up to each of its separators, is a directory of d.
SegmentsExist(folder, d) ==
    \A i \in 1..Len(folder) : folder[i] = Sep => DirExists(SubSeq(folder, 1, i - 1), d)

(* C13: for every folder InitDumpCollection accepted, a capture that finds
   every segment of the folder in place gets success from CreateMinidumpFolder. *)
C13_FolderIdempotent ==
    [][ (CaptureStep /\ SegmentsExist(_dumpFolder, dirs)) => cap'.folderOk ]_vars

\* s ends with t.
EndsWith(s, t) == Len(s) >= Len(t) /\ SubSeq(s, Len(s) - Len(t) + 1, Len(s)) = t

\* The stamp with each of day, month, hour, minute and second on two digits.
PaddedStamp(time) ==
    TwoDigits(time.wDay) \o <<".">> \o TwoDigits(time.wMonth) \o <<".">> \o Decimal(time.wYear)
        \o <<" ", "-", " ">> \o TwoDigits(time.wHour) \o <<"_">> \o TwoDigits(time.wMinute)
        \o <<"_">> \o TwoDigits(time.wSecond)

(* C14: the name a capture builds ends with the stamp of its local time in
   which day, month, hour, minute and second each take two digits, and with
   ".dmp". *)
C14_ZeroPadded ==
    [][ (CaptureStep /\ cap'.path # NULL)
        => EndsWith(cap'.path, <<"_">> \o PaddedStamp(GetLocalTime(clock)) \o S_dmp) ]_vars

\* The path of the file an enumerated entry stands for.
EntryPath(e) == _dumpFolder \o e.cFileName

\* The entries seen at the i-th call of DeleteFile of the last scan that are
\* still on disk: the scan goes on after a call only when it deleted the file.
SeenOnDisk(i) ==
    { e \in cap.seenAt[i] : \A j \in 1..(i - 1) : cap.calls[j] # EntryPath(e) }

(* C15: each path a retention scan hands to DeleteFile is handed over when
   the entries seen so far number retainedCount or more, and is the path of
   the oldest of the entries seen so far that are still on disk; no path is
   handed over twice. *)
C15_DeletesOldestSeen ==
    /\ \A i \in DOMAIN cap.calls :
          /\ Cardinality(cap.seenAt[i]) >= _numRetainedMinidumps
          /\ \E e \in SeenOnDisk(i) :
                /\ cap.calls[i] = EntryPath(e)
                /\ \A o \in SeenOnDisk(i) : o.ftLastWriteTime >= e.ftLastWriteTime
    /\ \A i, j \in DOMAIN cap.calls : i # j => cap.calls[i] # cap.calls[j]

(* C16: every path a retention scan hands to DeleteFile is the path of a
   file that was in the folder and matched the pattern when the scan began,
   and holds the pattern nowhere. *)
C16_PatternOnlyEnumerates ==
    \A i \in DOMAIN cap.calls :
        /\ cap.calls[i] \in FilePaths(Dumps(cap.before))
        /\ ~wcsstr(cap.calls[i], _minidumpPattern)

(* C17: a capture takes its steps in the order folder, retention, name,
   file, facility, close, and stops where a resource fails: without the folder
   it starts no scan, deletes and creates no file and does not invoke the
   facility; without the output file it does not invoke the facility. *)
C17_StepsInOrder ==
    /\ [](cap.entered =>
            /\ cap.retention # "notrun" => cap.folderOk
            /\ cap.path # NULL => cap.retention # "notrun"
            /\ cap.created => cap.path # NULL
            /\ cap.resolved => cap.created
            /\ cap.facility # "notcalled" => cap.resolved
            /\ cap.closed => cap.facility # "notcalled"
            /\ ~cap.folderOk => (cap.calls = <<>> /\ ~cap.created /\ cap.facility = "notcalled")
            /\ ~cap.created => cap.facility = "notcalled")
    /\ [][ CaptureStep =>
             /\ ~cap'.folderOk => (files' = files /\ openFiles' = openFiles)
             /\ ~cap'.created => (files' = cap'.afterScan \/ ~cap'.folderOk)
                                 /\ openFiles' = openFiles ]_vars

\* A capture was abandoned because CreateDirectory was refused.
C17_Witness ==
    /\ cap.entered
    /\ ~cap.folderOk
    /\ cap.faults = {"mkdir"}
    /\ lastError = ERROR_ACCESS_DENIED

(* C18: the facility is given an exception-information record exactly when
   the capture was given a fault context; the record then refers to that
   context and has ClientPointers TRUE.  The captures of the assertion, the
   pure-virtual-call and the on-demand path give none.  No global of the
   program holds the fault context. *)
C18_ExceptionInfo ==
    /\ [](cap.facility # "notcalled" =>
            /\ cap.exc = NULL <=> cap.exceptionParam = NULL
            /\ cap.exc # NULL =>
                  /\ cap.exceptionParam[2] = cap.exc[1]
                  /\ cap.exceptionParam[3] = "TRUE")
    /\ [][ (CaptureStep /\ cap'.facility # "notcalled") =>
             /\ ret'.op \in {"OnCrtAssert", "OnCrtPurecall", "CreateMiniDump"}
                   => cap'.exceptionParam = NULL
             /\ ret'.op = "OnUnhandledException"
                   => (cap'.exc = Context /\ cap'.exceptionParam # NULL) ]_vars
    /\ [](Context \notin {_dumpFolder, _dumpName, _minidumpPattern, _minidumpStringBuilder,
                          _minidumpFileName, _tmpPath, _oldestFileFullName})

\* The dump of an unhandled exception was written with exception information.
C18_Witness ==
    /\ ret.op = "OnUnhandledException"
    /\ cap.facility = "TRUE"
    /\ cap.exceptionParam # NULL
    /\ cap.exceptionParam[3] = "TRUE"

(* C19: when a capture has returned, the output file it created is open no
   more, on whichever path it returned. *)
C19_NoHandleLeft ==
    (cap.entered /\ cap.created) => cap.path \notin openFiles

(* C20: every file a capture creates lies directly in the configured folder
   and matches the pattern folder + name + "*.dmp"; its name is built from the
   configured name and not from the dumpName given to CreateMiniDump, so the
   capture adds to the dump files of the folder and to nothing else. *)
C20_DumpsInFolder ==
    [][ (CaptureStep /\ cap'.created) =>
          /\ cap'.path \in FilePaths(Dumps(files'))
          /\ DirOf(cap'.path) = DirOf(_dumpFolder)
          /\ EndsWith(cap'.path, _dumpFolder \o _dumpName \o <<"_">>
                                     \o DateTimeStamp(GetLocalTime(clock)) \o S_dmp)
          /\ \A x \in files' \ files : PathOf(x) = cap'.path ]_vars

\* An on-demand capture wrote a dump that matches the pattern.
C20_Witness ==
    /\ ret = [op |-> "CreateMiniDump", value |-> "TRUE"]
    /\ cap.created
    /\ cap.facility = "TRUE"
    /\ cap.path \in FilePaths(Dumps(files))

====
